---- MODULE Spec2Model ----
(***************************************************************************)
(* Model of scripts/github-storage/generate-manifest.py: the frontmatter   *)
(* parser, the per-file entry builder, the directory entry builder and the *)
(* walk of main.                                                           *)
(*                                                                         *)
(* Text is a sequence of one-character strings.  A Python value produced   *)
(* by the frontmatter parser or read from JSON is a record                 *)
(*   [kind |-> "str" | "list" | "true" | "false" | "null", items |-> ...]  *)
(* where items is the one-element sequence holding the text of a string,   *)
(* or the sequence of the texts of a list's items.                         *)
(***************************************************************************)
EXTENDS Integers, Sequences, FiniteSets, TLC

(***************************************************************************)
(* Text primitives (Python str methods used by the script)                 *)
(***************************************************************************)
Whitespace == {" ", "\n", "\t"}

Quotes == {"\"", "'"}

RECURSIVE lstrip(_, _)
lstrip(s, cs) ==
  IF s # <<>> /\ Head(s) \in cs THEN lstrip(Tail(s), cs) ELSE s

RECURSIVE rstrip(_, _)
rstrip(s, cs) ==
  IF s # <<>> /\ s[Len(s)] \in cs THEN rstrip(SubSeq(s, 1, Len(s) - 1), cs) ELSE s

strip(s) == rstrip(lstrip(s, Whitespace), Whitespace)

strip_quotes(s) == rstrip(lstrip(s, Quotes), Quotes)

Contains(s, c) == \E i \in 1..Len(s) : s[i] = c

IndexOf(s, c) == CHOOSE i \in 1..Len(s) : s[i] = c /\ \A j \in 1..(i - 1) : s[j] # c

RECURSIVE split(_, _)
split(s, sep) ==
  IF Contains(s, sep)
  THEN <<SubSeq(s, 1, IndexOf(s, sep) - 1)>>
         \o split(SubSeq(s, IndexOf(s, sep) + 1, Len(s)), sep)
  ELSE <<s>>

startswith(s, p) == Len(s) >= Len(p) /\ SubSeq(s, 1, Len(p)) = p

endswith(s, p) == Len(s) >= Len(p) /\ SubSeq(s, Len(s) - Len(p) + 1, Len(s)) = p

UpperCase ==
  <<"A", "B", "C", "D", "E", "F", "G", "H", "I", "J", "K", "L", "M",
    "N", "O", "P", "Q", "R", "S", "T", "U", "V", "W", "X", "Y", "Z">>

LowerCase ==
  <<"a", "b", "c", "d", "e", "f", "g", "h", "i", "j", "k", "l", "m",
    "n", "o", "p", "q", "r", "s", "t", "u", "v", "w", "x", "y", "z">>

LowerChar(c) ==
  IF \E i \in 1..26 : UpperCase[i] = c
  THEN LowerCase[CHOOSE i \in 1..26 : UpperCase[i] = c]
  ELSE c

lower(s) == [i \in 1..Len(s) |-> LowerChar(s[i])]

RECURSIVE JoinLines(_)
JoinLines(ls) ==
  IF ls = <<>> THEN <<>> ELSE Head(ls) \o <<"\n">> \o JoinLines(Tail(ls))

(***************************************************************************)
(* Python values                                                           *)
(***************************************************************************)
StrV(s) == [kind |-> "str", items |-> <<s>>]

ListV(xs) == [kind |-> "list", items |-> xs]

TrueV == [kind |-> "true", items |-> <<>>]

FalseV == [kind |-> "false", items |-> <<>>]

(***************************************************************************)
(* parse_frontmatter                                                       *)
(***************************************************************************)
\* first index >= i of t that is not whitespace (Len(t)+1 when none)
RECURSIVE WsRunEnd(_, _)
WsRunEnd(t, i) ==
  IF i <= Len(t) /\ t[i] \in Whitespace THEN WsRunEnd(t, i + 1) ELSE i

\* positions e where  \n---\s*\n  matches, e being the index of its first \n
FmClosers(t) ==
  { e \in 1..Len(t) :
      /\ e + 3 <= Len(t)
      /\ SubSeq(t, e, e + 3) = <<"\n", "-", "-", "-">>
      /\ \E q \in (e + 4)..(WsRunEnd(t, e + 4) - 1) : t[q] = "\n" }

\* positions p of the \n that ends  ^---\s*\n  and leaves a closer after it
FmOpeners(t) ==
  IF ~startswith(t, <<"-", "-", "-">>) THEN {}
  ELSE { p \in 4..(WsRunEnd(t, 4) - 1) :
           t[p] = "\n" /\ \E e \in FmClosers(t) : e >= p + 1 }

Max(S) == CHOOSE x \in S : \A y \in S : y <= x

Min(S) == CHOOSE x \in S : \A y \in S : x <= y

\* re.match(r'^---\s*\n(.*?)\n---\s*\n', content, re.DOTALL): greedy \s*,
\* lazy group.  start/stop delimit group(1), end is the last matched index.
FmMatch(t) ==
  IF FmOpeners(t) = {} THEN [found |-> FALSE, start |-> 0, stop |-> 0, end |-> 0]
  ELSE LET p == Max(FmOpeners(t))
           e == Min({ x \in FmClosers(t) : x >= p + 1 })
           q == Max({ x \in (e + 4)..(WsRunEnd(t, e + 4) - 1) : t[x] = "\n" })
       IN [found |-> TRUE, start |-> p + 1, stop |-> e - 1, end |-> q]

\* frontmatter[key] = v on an insertion-ordered dict
DictSet(d, k, v) ==
  IF \E i \in 1..Len(d) : d[i].key = k
  THEN [i \in 1..Len(d) |-> IF d[i].key = k THEN [key |-> k, val |-> v] ELSE d[i]]
  ELSE Append(d, [key |-> k, val |-> v])

DictHas(d, k) == \E i \in 1..Len(d) : d[i].key = k

DictGet(d, k) == d[CHOOSE i \in 1..Len(d) : d[i].key = k].val

RECURSIVE InlineItems(_)
InlineItems(items) ==
  IF items = <<>> THEN <<>>
  ELSE (IF strip(Head(items)) # <<>> THEN <<strip_quotes(strip(Head(items)))>> ELSE <<>>)
         \o InlineItems(Tail(items))

\* the if/elif chain on value
ParseValue(value) ==
  IF startswith(value, <<"[">>) /\ endswith(value, <<"]">>)
    THEN ListV(InlineItems(split(SubSeq(value, 2, Len(value) - 1), ",")))
  ELSE IF startswith(value, <<"\"">>) /\ endswith(value, <<"\"">>)
    THEN StrV(SubSeq(value, 2, Len(value) - 1))
  ELSE IF startswith(value, <<"'">>) /\ endswith(value, <<"'">>)
    THEN StrV(SubSeq(value, 2, Len(value) - 1))
  ELSE IF lower(value) = <<"t", "r", "u", "e">> THEN TrueV
  ELSE IF lower(value) = <<"f", "a", "l", "s", "e">> THEN FalseV
  ELSE IF value = <<>> THEN ListV(<<>>)
  ELSE StrV(value)

\* last_key = list(frontmatter.keys())[-1]
LastKeyIndex(fm) == Len(fm)

\* one iteration of the loop over yaml_content.split('\n')
FmStep(fm, raw) ==
  LET line == strip(raw) IN
  IF line = <<>> \/ line[1] = "#" THEN fm
  ELSE IF Contains(line, ":")
    THEN LET i == IndexOf(line, ":")
             key == strip(SubSeq(line, 1, i - 1))
             value == strip(SubSeq(line, i + 1, Len(line)))
         IN DictSet(fm, key, ParseValue(value))
  ELSE IF startswith(line, <<"-", " ">>) /\ fm # <<>>
    THEN LET k == LastKeyIndex(fm) IN
         IF fm[k].val.kind = "list"
         THEN [fm EXCEPT ![k].val.items =
                 Append(@, strip_quotes(strip(SubSeq(line, 3, Len(line)))))]
         ELSE fm
  ELSE fm

RECURSIVE FmFold(_, _)
FmFold(fm, ls) == IF ls = <<>> THEN fm ELSE FmFold(FmStep(fm, Head(ls)), Tail(ls))

YamlLines(content) ==
  LET m == FmMatch(content) IN split(SubSeq(content, m.start, m.stop), "\n")

parse_frontmatter(content) ==
  IF ~FmMatch(content).found THEN <<>> ELSE FmFold(<<>>, YamlLines(content))

(***************************************************************************)
(* extract_title_from_heading                                              *)
(***************************************************************************)
\* re.sub(r'^---\s*\n.*?\n---\s*\n', '', content, flags=re.DOTALL)
content_without_fm(t) ==
  IF FmMatch(t).found THEN SubSeq(t, FmMatch(t).end + 1, Len(t)) ELSE t

\* index of the first "\n" at or after i (Len(t)+1 when none)
RECURSIVE EolAt(_, _)
EolAt(t, i) == IF i <= Len(t) /\ t[i] # "\n" THEN EolAt(t, i + 1) ELSE i

\* where group(1) of  ^#\s+(.+)$  starts when the match is tried at i:
\* \s+ is greedy and gives characters back until (.+) has one to take.
\* 0 when the pattern does not match at i.
HeadingGroupStart(t, i) ==
  IF ~(t[i] = "#" /\ (i = 1 \/ t[i - 1] = "\n")) THEN 0
  ELSE LET r == WsRunEnd(t, i + 1) IN
       IF r = i + 1 THEN 0
       ELSE IF r <= Len(t) THEN r
       ELSE LET G == { g \in (i + 2)..Len(t) : t[g] # "\n" } IN
            IF G = {} THEN 0 ELSE Max(G)

\* re.search(r'^#\s+(.+)$', t, re.MULTILINE): leftmost match
HeadingMatches(t) == { i \in 1..Len(t) : HeadingGroupStart(t, i) # 0 }

\* [found, text]: match.group(1).strip() if match else None
extract_title_from_heading(content) ==
  LET t == content_without_fm(content) IN
  IF HeadingMatches(t) = {} THEN [found |-> FALSE, text |-> <<>>]
  ELSE LET g == HeadingGroupStart(t, Min(HeadingMatches(t))) IN
       [found |-> TRUE, text |-> strip(SubSeq(t, g, EolAt(t, g) - 1))]

(***************************************************************************)
(* parse_date_to_timestamp                                                 *)
(***************************************************************************)
Digits == {"0", "1", "2", "3", "4", "5", "6", "7", "8", "9"}

DigitVal(c) ==
  CASE c = "0" -> 0 [] c = "1" -> 1 [] c = "2" -> 2 [] c = "3" -> 3 [] c = "4" -> 4
    [] c = "5" -> 5 [] c = "6" -> 6 [] c = "7" -> 7 [] c = "8" -> 8 [] c = "9" -> 9

AllDigits(s) == \A i \in 1..Len(s) : s[i] \in Digits

RECURSIVE ToInt(_)
ToInt(s) ==
  IF s = <<>> THEN 0 ELSE 10 * ToInt(SubSeq(s, 1, Len(s) - 1)) + DigitVal(s[Len(s)])

\* a one- or two-digit field of strptime with value in lo..hi
Field(s, lo, hi) == Len(s) \in {1, 2} /\ AllDigits(s) /\ ToInt(s) \in lo..hi

\* %Y = \d\d\d\d, and datetime rejects year 0
YearOk(s) == Len(s) = 4 /\ AllDigits(s) /\ ToInt(s) >= 1

\* %m = 1[0-2]|0[1-9]|[1-9]
MonthOk(s) == Field(s, 1, 12)

\* %d = 3[01]|[12]\d|0[1-9]|[1-9]| [1-9]
DayOk(s) == Field(s, 1, 31) \/ (Len(s) = 2 /\ s[1] = " " /\ Field(<<s[2]>>, 1, 9))

DayVal(s) == IF s[1] = " " THEN DigitVal(s[2]) ELSE ToInt(s)

IsLeap(y) == (y % 4 = 0 /\ y % 100 # 0) \/ y % 400 = 0

DaysInMonth(y, m) ==
  IF m = 2 THEN (IF IsLeap(y) THEN 29 ELSE 28)
  ELSE IF m \in {4, 6, 9, 11} THEN 30 ELSE 31

\* days from 1970-01-01 to the civil date y-m-d
DaysFromCivil(y, m, d) ==
  LET yy == IF m <= 2 THEN y - 1 ELSE y
      era == yy \div 400
      yoe == yy - era * 400
      mp == IF m > 2 THEN m - 3 ELSE m + 9
      doy == (153 * mp + 2) \div 5 + d - 1
      doe == yoe * 365 + yoe \div 4 - yoe \div 100 + doy
  IN era * 146097 + doe - 719468

NoDate == [ok |-> FALSE, y |-> 0, m |-> 0, d |-> 0]

\* the date fields Y<sep>m<sep>d; the datetime constructor rejects a day the
\* month does not have (ValueError)
ParseYMD(s, sep) ==
  LET p == split(s, sep) IN
  IF Len(p) = 3 /\ YearOk(p[1]) /\ MonthOk(p[2]) /\ DayOk(p[3])
       /\ DayVal(p[3]) <= DaysInMonth(ToInt(p[1]), ToInt(p[2]))
  THEN [ok |-> TRUE, y |-> ToInt(p[1]), m |-> ToInt(p[2]), d |-> DayVal(p[3])]
  ELSE NoDate

NoTime == [ok |-> FALSE, secs |-> 0]

\* %H:%M:%S; strptime takes seconds 60 and 61, datetime refuses them
ParseHMS(s) ==
  LET p == split(s, ":") IN
  IF Len(p) = 3 /\ Field(p[1], 0, 23) /\ Field(p[2], 0, 59) /\ Field(p[3], 0, 59)
  THEN [ok |-> TRUE, secs |-> ToInt(p[1]) * 3600 + ToInt(p[2]) * 60 + ToInt(p[3])]
  ELSE NoTime

\* int(dt.timestamp()) of a naive datetime: local time, utc_offset seconds east
LocalTimestamp(date, secs, utc_offset) ==
  DaysFromCivil(date.y, date.m, date.d) * 86400 + secs - utc_offset

NullT == [kind |-> "null", n |-> 0]

IntT(n) == [kind |-> "int", n |-> n]

\* datetime.strptime(value, fmt) for the three formats, tried in order;
\* the format's T matches t as well (strptime compiles with IGNORECASE)
StrToTimestamp(s, utc_offset) ==
  LET f1 == ParseYMD(s, "-")
      tparts == split(lower(s), "t")
      f2d == IF Len(tparts) = 2 THEN ParseYMD(tparts[1], "-") ELSE NoDate
      f2t == IF Len(tparts) = 2 THEN ParseHMS(tparts[2]) ELSE NoTime
      f3 == ParseYMD(s, "/")
  IN IF f1.ok THEN IntT(LocalTimestamp(f1, 0, utc_offset))
     ELSE IF f2d.ok /\ f2t.ok THEN IntT(LocalTimestamp(f2d, f2t.secs, utc_offset))
     ELSE IF f3.ok THEN IntT(LocalTimestamp(f3, 0, utc_offset))
     ELSE NullT

\* value is a frontmatter value: bool is an int to isinstance, so True and
\* False are returned as they are; a list is neither int nor str
parse_date_to_timestamp(value, utc_offset) ==
  IF value.kind \in {"true", "false"} THEN [kind |-> value.kind, n |-> 0]
  ELSE IF value.kind # "str" THEN NullT
  ELSE StrToTimestamp(value.items[1], utc_offset)

(***************************************************************************)
(* get_git_modified_time                                                   *)
(***************************************************************************)
\* int(text): digits only here (git prints %ct as digits)
IntLiteral(s) == s # <<>> /\ AllDigits(s)

\* run is what subprocess.run does: [kind, stdout] with kind "exit0",
\* "nonzero" (CalledProcessError under check=True) or "notfound" (no git
\* executable: FileNotFoundError, an OSError the except clause does not name)
get_git_modified_time(run) ==
  IF run.kind = "notfound" THEN [raised |-> TRUE, val |-> NullT]
  ELSE IF run.kind = "nonzero" THEN [raised |-> FALSE, val |-> NullT]
  ELSE IF strip(run.stdout) = <<>> THEN [raised |-> FALSE, val |-> NullT]
  ELSE IF IntLiteral(strip(run.stdout))
    THEN [raised |-> FALSE, val |-> IntT(ToInt(strip(run.stdout)))]
  ELSE [raised |-> FALSE, val |-> NullT]

(***************************************************************************)
(* Paths and the content tree                                              *)
(*                                                                         *)
(* A path is the sequence of its names below the content directory.  The   *)
(* tree fs is a set of nodes                                               *)
(*   [path, type, read, text, json, git_out]                               *)
(* type is "file" or "dir"; read is what opening and decoding the file     *)
(* does ("ok", "ioerror", "bad_utf8"); text is the decoded content; json   *)
(* is what json.load makes of it; git_out is what git log prints for it.   *)
(***************************************************************************)
LastDot(name) ==
  IF Contains(name, ".") THEN Max({ i \in 1..Len(name) : name[i] = "." }) ELSE 0

\* PurePath.suffix
suffix(name) ==
  IF LastDot(name) > 1 /\ LastDot(name) < Len(name)
  THEN SubSeq(name, LastDot(name), Len(name)) ELSE <<>>

\* PurePath.stem
stem(name) ==
  IF LastDot(name) > 1 /\ LastDot(name) < Len(name)
  THEN SubSeq(name, 1, LastDot(name) - 1) ELSE name

EXTENSIONS ==
  { <<".", "m", "d">>, <<".", "p", "d", "f">>, <<".", "p", "n", "g">>,
    <<".", "j", "p", "g">>, <<".", "j", "p", "e", "g">>, <<".", "g", "i", "f">>,
    <<".", "w", "e", "b", "p">>, <<".", "s", "v", "g">>, <<".", "l", "i", "n", "k">>,
    <<".", "e", "n", "c">> }

KeysSuffix == <<".", "k", "e", "y", "s">>

MetaName == <<".", "m", "e", "t", "a", ".", "j", "s", "o", "n">>

Exists(fs, p) == \E n \in fs : n.path = p

NodeAt(fs, p) == CHOOSE n \in fs : n.path = p

NullV == [kind |-> "null", items |-> <<>>]

NoDoc == [kind |-> "null", fields |-> <<>>, elems |-> <<>>]

\* bool(value) of a loaded JSON document
Truthy(doc) ==
  CASE doc.kind = "object" -> doc.fields # <<>>
    [] doc.kind = "array" -> doc.elems # <<>>
    [] OTHER -> FALSE

\* json.load of an opened file, shared by the two loaders: the except clause
\* names JSONDecodeError and IOError; a UnicodeDecodeError is neither
LoadJson(fs, p) ==
  IF ~Exists(fs, p) THEN [raised |-> FALSE, some |-> FALSE, doc |-> NoDoc]
  ELSE LET n == NodeAt(fs, p) IN
       IF n.type = "dir" \/ n.read = "ioerror"
         THEN [raised |-> FALSE, some |-> FALSE, doc |-> NoDoc]
       ELSE IF n.read = "bad_utf8"
         THEN [raised |-> TRUE, some |-> FALSE, doc |-> NoDoc]
       ELSE IF n.json.kind = "malformed"
         THEN [raised |-> FALSE, some |-> FALSE, doc |-> NoDoc]
       ELSE [raised |-> FALSE, some |-> TRUE, doc |-> n.json]

\* filepath.with_suffix(filepath.suffix + '.keys')
KeysPath(p) == [p EXCEPT ![Len(p)] = @ \o KeysSuffix]

load_keys_file(fs, p) == LoadJson(fs, KeysPath(p))

\* returns {} where load_keys_file returns None
load_directory_meta(fs, dir) ==
  LET r == LoadJson(fs, dir \o <<MetaName>>) IN
  IF r.some THEN r ELSE [r EXCEPT !.doc = [kind |-> "object", fields |-> <<>>, elems |-> <<>>]]

\* subprocess.run(['git', 'log', ...]) under the environment git_env:
\* "missing" = no git executable, "norepo" = git exits non-zero
GitRun(git_env, node) ==
  CASE git_env = "missing" -> [kind |-> "notfound", stdout |-> <<>>]
    [] git_env = "norepo" -> [kind |-> "nonzero", stdout |-> <<>>]
    [] OTHER -> [kind |-> "exit0", stdout |-> node.git_out]

NoEntry ==
  [path |-> <<>>, title |-> NullV, size |-> 0, modified |-> NullT,
   tags |-> <<>>, encryption |-> <<>>]

ReturnNone == [kind |-> "none", entry |-> NoEntry]

Raise == [kind |-> "raised", entry |-> NoEntry]

Return(e) == [kind |-> "entry", entry |-> e]

K_title == <<"t", "i", "t", "l", "e">>

K_tags == <<"t", "a", "g", "s">>

K_modified == <<"m", "o", "d", "i", "f", "i", "e", "d">>

K_algorithm == <<"a", "l", "g", "o", "r", "i", "t", "h", "m">>

K_wrapped_keys == <<"w", "r", "a", "p", "p", "e", "d", "_", "k", "e", "y", "s">>

SidecarNames == {K_title, K_tags, K_algorithm, K_wrapped_keys}

\* the encryption dict built from the sidecar
Encryption(d) ==
  (IF DictHas(d, K_algorithm)
     THEN <<[key |-> K_algorithm, val |-> DictGet(d, K_algorithm)]>> ELSE <<>>)
  \o (IF DictHas(d, K_wrapped_keys)
     THEN <<[key |-> K_wrapped_keys, val |-> DictGet(d, K_wrapped_keys)]>> ELSE <<>>)

\* ApplySidecar without  entry['title'] = keys_data['title']
ApplySidecar_TitleIgnored(entry, doc) ==
  IF doc.kind = "array"
  THEN IF \E i \in 1..Len(doc.elems) : doc.elems[i] \in SidecarNames
       THEN Raise ELSE Return(entry)
  ELSE LET d == doc.fields
           e2 == IF DictHas(d, K_tags) /\ DictGet(d, K_tags).kind = "list"
                 THEN [entry EXCEPT !.tags = DictGet(d, K_tags).items] ELSE entry
       IN Return([e2 EXCEPT !.encryption = Encryption(d)])

\* the branch  if keys_data:  ; subscripting a JSON array with a string is a
\* TypeError, reached when a 'x' in keys_data test finds x among the elements
ApplySidecar(entry, doc) ==
  IF doc.kind = "array"
  THEN IF \E i \in 1..Len(doc.elems) : doc.elems[i] \in SidecarNames
       THEN Raise ELSE Return(entry)
  ELSE LET d == doc.fields
           e1 == IF DictHas(d, K_title) THEN [entry EXCEPT !.title = DictGet(d, K_title)]
                 ELSE entry
           e2 == IF DictHas(d, K_tags) /\ DictGet(d, K_tags).kind = "list"
                 THEN [e1 EXCEPT !.tags = DictGet(d, K_tags).items] ELSE e1
       IN Return([e2 EXCEPT !.encryption = Encryption(d)])

\* the branch  elif filepath.suffix.lower() == '.md':  ; except IOError
\* does not cover the UnicodeDecodeError of f.read()
ApplyMarkdown(entry, node, utc_offset) ==
  IF node.read = "ioerror" THEN Return(entry)
  ELSE IF node.read = "bad_utf8" THEN Raise
  ELSE LET fm == parse_frontmatter(node.text)
           h == extract_title_from_heading(node.text)
           e1 == IF DictHas(fm, K_title) THEN [entry EXCEPT !.title = DictGet(fm, K_title)]
                 ELSE IF h.found /\ h.text # <<>> THEN [entry EXCEPT !.title = StrV(h.text)]
                 ELSE entry
           e2 == IF DictHas(fm, K_tags) /\ DictGet(fm, K_tags).kind = "list"
                 THEN [e1 EXCEPT !.tags = DictGet(fm, K_tags).items] ELSE e1
           e3 == IF DictHas(fm, K_modified)
                 THEN [e2 EXCEPT !.modified =
                         parse_date_to_timestamp(DictGet(fm, K_modified), utc_offset)]
                 ELSE e2
       IN Return(e3)

\* str(path.relative_to(content_dir)): the names joined by '/', '.' when none
RECURSIVE JoinPath(_)
JoinPath(p) ==
  IF p = <<>> THEN <<".">>
  ELSE IF Len(p) = 1 THEN p[1]
  ELSE p[1] \o <<"/">> \o JoinPath(Tail(p))

\* Hidden looking at the file name only
Hidden_NameOnly(rel_path) ==
  startswith(split(rel_path, "/")[Len(split(rel_path, "/"))], <<".">>)

\* any(part.startswith('.') for part in rel_path.split('/'))
Hidden(rel_path) ==
  \E i \in 1..Len(split(rel_path, "/")) : startswith(split(rel_path, "/")[i], <<".">>)

\* Path(rel_path).stem
PathStem(rel_path) == stem(split(rel_path, "/")[Len(split(rel_path, "/"))])

process_file(fs, p, git_env, utc_offset) ==
  LET name == p[Len(p)]
      node == NodeAt(fs, p)
      ext == lower(suffix(name))
      rel_path == JoinPath(p)
  IN
  IF ext = KeysSuffix THEN ReturnNone
  ELSE IF ext \notin EXTENSIONS THEN ReturnNone
  ELSE IF Hidden(rel_path) THEN ReturnNone
  ELSE LET git == get_git_modified_time(GitRun(git_env, node))
           entry == [path |-> rel_path, title |-> StrV(PathStem(rel_path)),
                     size |-> Len(node.text), modified |-> git.val,
                     tags |-> <<>>, encryption |-> <<>>]
           keys == load_keys_file(fs, p)
       IN IF git.raised \/ keys.raised THEN Raise
          ELSE IF keys.some /\ Truthy(keys.doc) THEN ApplySidecar(entry, keys.doc)
          ELSE IF ext = <<".", "m", "d">> THEN ApplyMarkdown(entry, node, utc_offset)
          ELSE Return(entry)

NoDirEntry ==
  [path |-> <<>>, title |-> NullV, tags |-> NullV, description |-> NullV,
   icon |-> NullV, thumbnail |-> NullV]

DirNone == [kind |-> "none", entry |-> NoDirEntry]

DirRaise == [kind |-> "raised", entry |-> NoDirEntry]

\* meta.get(key, default)
DictGetOr(d, k, default) == IF DictHas(d, k) THEN DictGet(d, k) ELSE default

\* rel_path = str(dir_path.relative_to(content_dir)), '' for '.'
DirRelPath(dir) == IF JoinPath(dir) = <<".">> THEN <<>> ELSE JoinPath(dir)

\* dir is <<>> for the content directory itself
process_directory_meta(fs, dir) ==
  LET r == load_directory_meta(fs, dir)
      rel_path == DirRelPath(dir)
  IN
  IF r.raised THEN DirRaise
  ELSE IF ~Truthy(r.doc) THEN DirNone
  ELSE IF r.doc.kind # "object" THEN DirRaise
  ELSE LET d == r.doc.fields IN
       [kind |-> "entry",
        entry |->
          [path |-> rel_path,
           title |-> DictGetOr(d, K_title,
                       IF rel_path # <<>> THEN StrV(dir[Len(dir)]) ELSE StrV(<<"H", "o", "m", "e">>)),
           tags |-> DictGetOr(d, K_tags, ListV(<<>>)),
           description |-> DictGetOr(d, <<"d", "e", "s", "c", "r", "i", "p", "t", "i", "o", "n">>, NullV),
           icon |-> DictGetOr(d, <<"i", "c", "o", "n">>, NullV),
           thumbnail |-> DictGetOr(d, <<"t", "h", "u", "m", "b", "n", "a", "i", "l">>, NullV)]]

(***************************************************************************)
(* sorted(content_dir.rglob('*'))                                          *)
(***************************************************************************)
\* the characters of the model's names in code point order
CodePoints ==
  <<"\t", "\n", " ", "\"", "#", "'", ",", "-", ".", "/",
    "0", "1", "2", "3", "4", "5", "6", "7", "8", "9", ":">>
  \o UpperCase \o <<"[", "]", "_">> \o LowerCase \o <<"~">>

Ord(c) == CHOOSE i \in 1..Len(CodePoints) : CodePoints[i] = c

\* str.__lt__
RECURSIVE StrLess(_, _)
StrLess(a, b) ==
  IF b = <<>> THEN FALSE
  ELSE IF a = <<>> THEN TRUE
  ELSE IF Head(a) = Head(b) THEN StrLess(Tail(a), Tail(b))
  ELSE Ord(Head(a)) < Ord(Head(b))

\* PurePath.__lt__: the parts compared as lists
RECURSIVE PathLess(_, _)
PathLess(p, q) ==
  IF q = <<>> THEN FALSE
  ELSE IF p = <<>> THEN TRUE
  ELSE IF Head(p) = Head(q) THEN PathLess(Tail(p), Tail(q))
  ELSE StrLess(Head(p), Head(q))

RECURSIVE sorted(_)
sorted(P) ==
  IF P = {} THEN <<>>
  ELSE LET m == CHOOSE x \in P : \A y \in P \ {x} : PathLess(x, y)
       IN <<m>> \o sorted(P \ {m})

\* every file and directory below the content directory
rglob(fs) == { n.path : n \in fs }


(***************************************************************************)
(* Inputs: documents, sidecars and trees the script is run on              *)
(***************************************************************************)
MaxDocLines == 4

MaxYamlLines == 4

MaxRuns == 2

\* UTC offsets of the zones the script is run in (UTC, Asia/Seoul)
TimeZones == {0, 32400}

SeqsUpTo(S, n) == UNION { [1..k -> S] : k \in 0..n }

L_delim == <<"-", "-", "-">>
L_title == <<"t", "i", "t", "l", "e", ":", " ", "T">>
L_heading == <<"#", " ", "H">>
L_hash == <<"#">>
L_text == <<"x">>
L_mod_date == <<"m", "o", "d", "i", "f", "i", "e", "d", ":", " ", "2", "0", "2", "4", "-", "0", "1", "-", "1", "5">>
L_mod_int == <<"m", "o", "d", "i", "f", "i", "e", "d", ":", " ", "1", "7">>
L_tags == <<"t", "a", "g", "s", ":", " ", "[", "a", "]">>

DocLines == {L_delim, L_title, L_heading, L_hash, L_text, L_mod_date, L_mod_int, L_tags}

\* markdown documents: up to MaxDocLines lines, each ended by a newline
Docs == { JoinLines(ls) : ls \in SeqsUpTo(DocLines, MaxDocLines) }

Doc_fm == JoinLines(<<L_delim, L_title, L_mod_date, L_tags, L_delim, L_heading>>)

Doc_plain == JoinLines(<<L_text>>)

Y_blank == <<"t", "a", "g", "s", ":">>
Y_scalar == <<"o", ":", " ", "x">>
Y_item == <<"-", " ", "a">>
Y_item_colon == <<"-", " ", "b", ":", "c">>
Y_inline == <<"l", ":", " ", "[", "'", "d", "'", "]">>
Y_item_quoted == <<" ", "-", " ", "\"", "e", "\"", " ">>

YamlLineSet == {Y_blank, Y_scalar, Y_item, Y_item_colon, Y_inline, Y_item_quoted}

\* frontmatter blocks: --- , up to MaxYamlLines lines, ---
FmDocs ==
  { JoinLines(<<L_delim>> \o ls \o <<L_delim>>) : ls \in SeqsUpTo(YamlLineSet, MaxYamlLines) }

Obj(fields) == [kind |-> "object", fields |-> fields, elems |-> <<>>]

Arr(elems) == [kind |-> "array", fields |-> <<>>, elems |-> elems]

Malformed == [kind |-> "malformed", fields |-> <<>>, elems |-> <<>>]

FileNode(p, read, text, json, git_out) ==
  [path |-> p, type |-> "file", read |-> read, text |-> text, json |-> json,
   git_out |-> git_out]

DirNode(p) ==
  [path |-> p, type |-> "dir", read |-> "ioerror", text |-> <<>>, json |-> NoDoc,
   git_out |-> <<>>]

JsonFile(p, doc) == FileNode(p, "ok", <<>>, doc, <<>>)

N_a_md == <<"a", ".", "m", "d">>
N_b_enc == <<"b", ".", "e", "n", "c">>
N_c_PNG == <<"c", ".", "P", "N", "G">>
N_d_txt == <<"d", ".", "t", "x", "t">>
N_h_md == <<".", "h", ".", "m", "d">>
N_n == <<"n">>
N_p == <<".", "p">>
N_x_md == <<"x", ".", "m", "d">>

KeysFull ==
  Obj(<<[key |-> K_title, val |-> StrV(<<"K">>)],
        [key |-> K_tags, val |-> ListV(<<<<"k">>>>)],
        [key |-> K_algorithm, val |-> StrV(<<"A">>)]>>)

KeysNoTitle ==
  Obj(<<[key |-> K_tags, val |-> StrV(<<"k">>)],
        [key |-> K_wrapped_keys, val |-> ListV(<<<<"w">>>>)]>>)

KeysEmpty == Obj(<<>>)

\* the sidecars of a file at p: none, or one of these files
SidecarChoices(p) ==
  { {} }
  \cup { {JsonFile(KeysPath(p), d)} :
           d \in {KeysFull, KeysNoTitle, KeysEmpty, Malformed, Arr(<<>>),
                  Arr(<<K_title>>), Arr(<<<<"z">>>>)} }
  \cup { {FileNode(KeysPath(p), "bad_utf8", <<>>, NoDoc, <<>>)} }

GitOutputs == {<<"1", "7", "\n">>, <<>>, <<"x", "\n">>}

GitEnvs == {"ok", "norepo", "missing"}

\* process_file inputs: every document with the common sidecars ...
FileInputsByText ==
  { [fs |-> {FileNode(<<N_a_md>>, "ok", t, NoDoc, <<"1", "7", "\n">>)} \cup k,
     target |-> <<N_a_md>>, git_env |-> "ok", tz |-> z] :
      t \in Docs, k \in { {}, {JsonFile(KeysPath(<<N_a_md>>), KeysEmpty)},
                          {JsonFile(KeysPath(<<N_a_md>>), KeysFull)} },
      z \in TimeZones }

\* ... and every kind of file, sidecar and version-control outcome with two
FileInputsFor(p) ==
  { [fs |-> {FileNode(p, rd, t, NoDoc, g)} \cup k,
     target |-> p, git_env |-> ge, tz |-> 0] :
      rd \in {"ok", "ioerror", "bad_utf8"},
      t \in {Doc_fm, Doc_plain},
      g \in GitOutputs,
      ge \in GitEnvs,
      k \in SidecarChoices(p) }

FileInputsByEnv ==
  UNION { FileInputsFor(p) :
            p \in {<<N_a_md>>, <<N_b_enc>>, <<N_c_PNG>>, <<N_d_txt>>, <<N_h_md>>,
                   <<N_n, N_p, N_x_md>>, KeysPath(<<N_a_md>>)} }

FileInputs == FileInputsByText \cup FileInputsByEnv

\* the trees main is run on: each part is there or not, in some variants
MdChoices ==
  { {}, {FileNode(<<N_a_md>>, "ok", Doc_fm, NoDoc, <<"1", "7", "\n">>)},
    {FileNode(<<N_a_md>>, "ok", Doc_plain, NoDoc, <<>>)},
    {FileNode(<<N_a_md>>, "bad_utf8", <<>>, NoDoc, <<"1", "7", "\n">>)} }

KeysChoices == { {}, {JsonFile(KeysPath(<<N_a_md>>), KeysFull)} }

MetaDocs ==
  { Malformed, Obj(<<>>), Obj(<<[key |-> K_title, val |-> StrV(<<"R">>)]>>),
    Obj(<<[key |-> K_tags, val |-> ListV(<<<<"r">>>>)]>>), Arr(<<<<"z">>>>) }

RootMetaChoices ==
  { {} } \cup { {JsonFile(<<MetaName>>, d)} : d \in MetaDocs }
  \cup { {FileNode(<<MetaName>>, rd, <<"?">>,
                   Obj(<<[key |-> K_title, val |-> StrV(<<"R">>)]>>), <<>>)} :
           rd \in {"ioerror", "bad_utf8"} }

SubdirChoices ==
  { {}, {DirNode(<<N_n>>)},
    {DirNode(<<N_n>>),
     JsonFile(<<N_n, MetaName>>, Obj(<<[key |-> K_tags, val |-> ListV(<<>>)]>>))},
    {DirNode(<<N_n>>), DirNode(<<N_n, N_p>>),
     FileNode(<<N_n, N_p, N_x_md>>, "ok", Doc_plain, NoDoc, <<>>)} }

ExtraChoices ==
  { {}, {FileNode(<<N_c_PNG>>, "ok", <<"x">>, NoDoc, <<"1", "7", "\n">>)},
    {FileNode(<<N_d_txt>>, "ok", <<"x">>, NoDoc, <<>>)},
    {FileNode(<<N_h_md>>, "ok", Doc_plain, NoDoc, <<>>)} }

(***************************************************************************)
(* State                                                                   *)
(***************************************************************************)
VARIABLES
  fs,           \* the content tree
  root_exists,  \* content_dir.exists()
  git_env,      \* "ok", "norepo" (git exits non-zero) or "missing" (no git)
  tz,           \* UTC offset of the local time zone of the running process
  pc,           \* where main (or the function under study) stands
  todo,         \* what is left of the sorted walk
  files,        \* main's list files
  directories,  \* main's list directories
  manifest,     \* what was written to manifest.json
  previous,     \* the manifest the run before this one wrote
  run,          \* number of the current run of the script
  target,       \* the path process_file is called on
  result,       \* what the last call of process_file returned
  content,      \* parse_frontmatter's argument
  yaml_lines,   \* yaml_content.split('\n')
  line_no,      \* index of the loop's next line
  frontmatter   \* parse_frontmatter's dict

vars ==
  <<fs, root_exists, git_env, tz, pc, todo, files, directories, manifest,
    previous, run, target, result, content, yaml_lines, line_no, frontmatter>>

walk_vars == <<pc, todo, files, directories, manifest, previous, run, result>>

fm_vars == <<content, yaml_lines, line_no, frontmatter>>

NoManifest == [files |-> <<>>, directories |-> <<>>]

NotCalled == [kind |-> "pending", entry |-> NoEntry]

FmIdle == content = <<>> /\ yaml_lines = <<>> /\ line_no = 0 /\ frontmatter = <<>>

WalkIdle ==
  /\ todo = <<>> /\ files = <<>> /\ directories = <<>>
  /\ manifest = NoManifest /\ previous = NoManifest /\ run = 1
  /\ result = NotCalled

(***************************************************************************)
(* main                                                                    *)
(***************************************************************************)
Init ==
  /\ \/ /\ \E a \in MdChoices, b \in KeysChoices, c \in RootMetaChoices,
               d \in SubdirChoices, e \in ExtraChoices :
               fs = a \cup b \cup c \cup d \cup e
        /\ root_exists = TRUE
     \/ fs = {} /\ root_exists = FALSE
  /\ git_env \in {"ok", "missing"}
  /\ tz \in TimeZones
  /\ pc = "start"
  /\ target = <<>>
  /\ WalkIdle
  /\ FmIdle

\* if not content_dir.exists(): return ; else the first sorted(rglob('*'))
MainStart ==
  /\ pc = "start"
  /\ IF root_exists
     THEN pc' = "files" /\ todo' = sorted(rglob(fs))
     ELSE pc' = "aborted" /\ todo' = todo
  /\ UNCHANGED <<fs, root_exists, git_env, tz, files, directories, manifest,
                 previous, run, target, result>>
  /\ UNCHANGED fm_vars

\* one iteration of the loop over files; an exception ends the script
WalkFile ==
  /\ pc = "files" /\ todo # <<>>
  /\ LET p == Head(todo) IN
     IF NodeAt(fs, p).type = "file" /\ p[Len(p)] # MetaName
     THEN /\ target' = p
          /\ result' = process_file(fs, p, git_env, tz)
          /\ pc' = IF result'.kind = "raised" THEN "crashed" ELSE "files"
          /\ files' = IF result'.kind = "entry" THEN Append(files, result'.entry)
                                                ELSE files
     ELSE UNCHANGED <<target, result, pc, files>>
  /\ todo' = Tail(todo)
  /\ UNCHANGED <<fs, root_exists, git_env, tz, directories, manifest, previous, run>>
  /\ UNCHANGED fm_vars

\* the files loop is over: the second sorted(rglob('*'))
WalkFilesDone ==
  /\ pc = "files" /\ todo = <<>>
  /\ pc' = "dirs"
  /\ todo' = sorted(rglob(fs))
  /\ UNCHANGED <<fs, root_exists, git_env, tz, files, directories, manifest,
                 previous, run, target, result>>
  /\ UNCHANGED fm_vars

\* one iteration of the loop over directories
WalkDir ==
  /\ pc = "dirs" /\ todo # <<>>
  /\ LET p == Head(todo) IN
     IF NodeAt(fs, p).type = "dir"
     THEN LET r == process_directory_meta(fs, p) IN
          /\ pc' = IF r.kind = "raised" THEN "crashed" ELSE "dirs"
          /\ directories' =
               IF r.kind = "entry" THEN Append(directories, r.entry) ELSE directories
     ELSE UNCHANGED <<pc, directories>>
  /\ todo' = Tail(todo)
  /\ UNCHANGED <<fs, root_exists, git_env, tz, files, manifest, previous, run,
                 target, result>>
  /\ UNCHANGED fm_vars

\* root_entry = process_directory_meta(content_dir, content_dir)
RootMeta ==
  /\ pc = "dirs" /\ todo = <<>>
  /\ LET r == process_directory_meta(fs, <<>>) IN
     /\ pc' = IF r.kind = "raised" THEN "crashed" ELSE "write"
     /\ directories' =
          IF r.kind = "entry" THEN Append(directories, r.entry) ELSE directories
  /\ UNCHANGED <<fs, root_exists, git_env, tz, todo, files, manifest, previous,
                 run, target, result>>
  /\ UNCHANGED fm_vars

\* json.dump(manifest, f, ...)
WriteManifest ==
  /\ pc = "write"
  /\ manifest' = [files |-> files, directories |-> directories]
  /\ pc' = "done"
  /\ UNCHANGED <<fs, root_exists, git_env, tz, todo, files, directories,
                 previous, run, target, result>>
  /\ UNCHANGED fm_vars

\* the script is run again on the unchanged tree and history, by a process
\* whose local time zone is any of TimeZones
Rerun ==
  /\ pc = "done" /\ run < MaxRuns
  /\ previous' = manifest
  /\ run' = run + 1
  /\ tz' \in TimeZones
  /\ pc' = "start"
  /\ todo' = <<>> /\ files' = <<>> /\ directories' = <<>>
  /\ manifest' = NoManifest
  /\ result' = NotCalled
  /\ target' = <<>>
  /\ UNCHANGED <<fs, root_exists, git_env>>
  /\ UNCHANGED fm_vars

Next ==
  \/ MainStart
  \/ WalkFile
  \/ WalkFilesDone
  \/ WalkDir
  \/ RootMeta
  \/ WriteManifest
  \/ Rerun

Spec == Init /\ [][Next]_vars

(***************************************************************************)
(* process_file on its own                                                 *)
(***************************************************************************)
InitFile ==
  /\ \E i \in FileInputs :
       fs = i.fs /\ target = i.target /\ git_env = i.git_env /\ tz = i.tz
  /\ root_exists = TRUE
  /\ pc = "call"
  /\ WalkIdle
  /\ FmIdle

CallProcessFile ==
  /\ pc = "call"
  /\ result' = process_file(fs, target, git_env, tz)
  /\ pc' = "returned"
  /\ UNCHANGED <<fs, root_exists, git_env, tz, todo, files, directories,
                 manifest, previous, run, target>>
  /\ UNCHANGED fm_vars

NextFile == CallProcessFile

SpecFile == InitFile /\ [][NextFile]_vars

(***************************************************************************)
(* parse_frontmatter, line by line                                         *)
(***************************************************************************)
InitFM ==
  /\ content \in FmDocs
  /\ yaml_lines = <<>> /\ line_no = 0 /\ frontmatter = <<>>
  /\ fs = {} /\ root_exists = TRUE /\ git_env = "ok" /\ tz = 0
  /\ target = <<>>
  /\ pc = "fm_match"
  /\ WalkIdle

\* frontmatter = {} ; re.match(...) ; if not match: return frontmatter
FmBegin ==
  /\ pc = "fm_match"
  /\ IF FmMatch(content).found
     THEN /\ yaml_lines' = YamlLines(content)
          /\ line_no' = 1
          /\ pc' = "fm_loop"
     ELSE /\ pc' = "fm_done"
          /\ UNCHANGED <<yaml_lines, line_no>>
  /\ UNCHANGED <<content, frontmatter>>
  /\ UNCHANGED <<fs, root_exists, git_env, tz, todo, files, directories,
                 manifest, previous, run, target, result>>

\* for line in yaml_content.split('\n'): one iteration
FmLine ==
  /\ pc = "fm_loop" /\ line_no <= Len(yaml_lines)
  /\ frontmatter' = FmStep(frontmatter, yaml_lines[line_no])
  /\ line_no' = line_no + 1
  /\ UNCHANGED <<content, yaml_lines>>
  /\ UNCHANGED <<fs, root_exists, git_env, tz, target>>
  /\ UNCHANGED walk_vars

\* return frontmatter
FmReturn ==
  /\ pc = "fm_loop" /\ line_no > Len(yaml_lines)
  /\ pc' = "fm_done"
  /\ UNCHANGED fm_vars
  /\ UNCHANGED <<fs, root_exists, git_env, tz, todo, files, directories,
                 manifest, previous, run, target, result>>

NextFM == FmBegin \/ FmLine \/ FmReturn

SpecFM == InitFM /\ [][NextFM]_vars

(***************************************************************************)
(* Properties                                                              *)
(*                                                                         *)
(* What the properties say about a file is said from the tree, not through *)
(* the operators that model the code.                                      *)
(***************************************************************************)
TargetNode == NodeAt(fs, target)

TargetName == target[Len(target)]

\* allowed extension (case-insensitively), no path segment starting with '.'
IsEligible(p) ==
  /\ \E x \in EXTENSIONS : endswith(lower(p[Len(p)]), x)
  /\ \A i \in 1..Len(p) : p[i][1] # "."

IsMarkdown(p) == endswith(lower(p[Len(p)]), <<".", "m", "d">>)

HasSidecar(p) == Exists(fs, KeysPath(p))

Sidecar(p) == NodeAt(fs, KeysPath(p))

\* the sidecar is a readable file holding JSON
SidecarLoads(p) ==
  HasSidecar(p) /\ Sidecar(p).read = "ok" /\ Sidecar(p).json.kind # "malformed"

SidecarHas(p, k) ==
  SidecarLoads(p) /\ Sidecar(p).json.kind = "object" /\ DictHas(Sidecar(p).json.fields, k)

FileStem(p) ==
  SubSeq(p[Len(p)], 1, Max({ i \in 1..Len(p[Len(p)]) : p[Len(p)][i] = "." }) - 1)

Returned == pc = "returned"

\* C1: an eligible file whose .keys sidecar has a title key gets an entry
\* whose title is the sidecar's title value, whatever the file contains
\* (stated of every call of process_file that returns).
C1_SidecarTitleWins ==
  (Returned /\ IsEligible(target) /\ SidecarHas(target, K_title)
     /\ result.kind # "raised")
  => /\ result.kind = "entry"
     /\ result.entry.title = DictGet(Sidecar(target).json.fields, K_title)

\* the case of C1: a markdown file with a frontmatter title and a heading,
\* and a sidecar with a title
C1_Witness ==
  /\ Returned /\ target = <<N_a_md>>
  /\ TargetNode.text = JoinLines(<<L_delim, L_title, L_delim, L_heading>>)
  /\ SidecarHas(target, K_title)
  /\ result.kind = "entry" /\ result.entry.title = StrV(<<"K">>)

\* a first-level heading line as the claim means it: '#', blanks, text
ClaimIsHeading(l) ==
  Len(l) >= 3 /\ l[1] = "#" /\ l[2] \in {" ", "\t"} /\ strip(SubSeq(l, 3, Len(l))) # <<>>

ClaimHeadingLines(t) ==
  { i \in 1..Len(split(content_without_fm(t), "\n")) :
      ClaimIsHeading(split(content_without_fm(t), "\n")[i]) }

ClaimHeadingText(t) ==
  LET l == split(content_without_fm(t), "\n")[Min(ClaimHeadingLines(t))]
  IN strip(SubSeq(l, 3, Len(l)))

\* C2: a markdown file without sidecar gets its title by the precedence
\* frontmatter title > first "# " heading line after the frontmatter >
\* filename stem.
C2_TitlePrecedence ==
  (Returned /\ IsEligible(target) /\ IsMarkdown(target) /\ ~HasSidecar(target)
     /\ TargetNode.read = "ok" /\ result.kind = "entry")
  => result.entry.title =
       IF DictHas(parse_frontmatter(TargetNode.text), K_title)
         THEN DictGet(parse_frontmatter(TargetNode.text), K_title)
       ELSE IF ClaimHeadingLines(TargetNode.text) # {}
         THEN StrV(ClaimHeadingText(TargetNode.text))
       ELSE StrV(FileStem(target))

\* C3: when the .keys sidecar of a markdown file exists and loads as JSON,
\* the entry's title, tags and modified are decided by the sidecar, the file
\* name and the version-control timestamp alone: nothing in the markdown
\* file has any effect.
C3_SidecarShortCircuits ==
  (Returned /\ IsEligible(target) /\ IsMarkdown(target) /\ SidecarLoads(target)
     /\ result.kind = "entry")
  => /\ result.entry.title =
          IF SidecarHas(target, K_title)
          THEN DictGet(Sidecar(target).json.fields, K_title)
          ELSE StrV(FileStem(target))
     /\ result.entry.tags =
          IF SidecarHas(target, K_tags)
               /\ DictGet(Sidecar(target).json.fields, K_tags).kind = "list"
          THEN DictGet(Sidecar(target).json.fields, K_tags).items
          ELSE <<>>
     /\ result.entry.modified = get_git_modified_time(GitRun(git_env, TargetNode)).val

\* C4: no entry of a written manifest's files has a path segment starting
\* with '.', none is a .keys file, and every entry's extension is allowed.
C4_OnlyEligibleEntries ==
  pc = "done" =>
    \A i \in 1..Len(manifest.files) :
      LET path == manifest.files[i].path IN
      /\ \A j \in 1..Len(split(path, "/")) : ~startswith(split(path, "/")[j], <<".">>)
      /\ ~endswith(lower(path), KeysSuffix)
      /\ \E x \in EXTENSIONS : endswith(lower(path), x)

\* the case of C4: a manifest with an entry, written for a tree that holds a
\* file under a hidden directory, a sidecar and an upper-case extension
C4_Witness ==
  /\ pc = "done"
  /\ Exists(fs, <<N_n, N_p, N_x_md>>) /\ Exists(fs, KeysPath(<<N_a_md>>))
  /\ Exists(fs, <<N_c_PNG>>)
  /\ Len(manifest.files) = 2

RootMetaNode == NodeAt(fs, <<MetaName>>)

DirsWithoutDescriptor ==
  { n.path : n \in { m \in fs : m.type = "dir" /\ ~Exists(fs, m.path \o <<MetaName>>) } }

NoEntryForBareDirs ==
  \A d \in DirsWithoutDescriptor :
    \A i \in 1..Len(manifest.directories) : manifest.directories[i].path # JoinPath(d)

RootEntryListed(no_title) ==
  \E i \in 1..Len(manifest.directories) :
    /\ manifest.directories[i].path = <<>>
    /\ no_title => manifest.directories[i].title = StrV(<<"H", "o", "m", "e">>)

\* C5: a directory without .meta.json has no entry in directories, and
\* whenever the root has a descriptor file that loads as a JSON object there
\* is an entry with path "" (titled "Home" when the descriptor gives no
\* title).  A descriptor that cannot be read or parsed counts as absent.
C5_RootDescriptorGivesEntry ==
  pc = "done" =>
    /\ NoEntryForBareDirs
    /\ (Exists(fs, <<MetaName>>) /\ RootMetaNode.read = "ok"
          /\ RootMetaNode.json.kind = "object")
       => RootEntryListed(~DictHas(RootMetaNode.json.fields, K_title))

\* the value of the frontmatter's modified key, parsed as the claim says:
\* an integer is passed through, a string goes through the three formats
ClaimModified(v, utc_offset) ==
  IF IntLiteral(v) THEN IntT(ToInt(v)) ELSE StrToTimestamp(v, utc_offset)

\* C6: for a markdown file without sidecar whose frontmatter has a modified
\* key, the entry's modified is that value parsed (first matching format of
\* the three; an integer passed through as epoch seconds), whatever the
\* version-control timestamp is.
C6_FrontmatterModified ==
  (Returned /\ IsEligible(target) /\ IsMarkdown(target) /\ ~HasSidecar(target)
     /\ TargetNode.read = "ok" /\ result.kind = "entry"
     /\ DictHas(parse_frontmatter(TargetNode.text), K_modified)
     /\ DictGet(parse_frontmatter(TargetNode.text), K_modified).kind = "str")
  => result.entry.modified =
       ClaimModified(DictGet(parse_frontmatter(TargetNode.text), K_modified).items[1], tz)

\* C7: two runs of main on the same tree with the same version-control
\* history write the same manifest.
C7_SameManifestOnRerun ==
  (pc = "done" /\ run > 1) => manifest = previous

\* the version-control query fails: non-zero exit, empty or non-numeric
\* output, no repository, or no git executable
GitQueryFails(node) ==
  \/ git_env \in {"norepo", "missing"}
  \/ ~IntLiteral(strip(node.git_out))

\* C8: whatever way the version-control query fails, the file's entry is
\* still emitted, with modified = null (stated for files that have no
\* sidecar and are not markdown, so that nothing else sets modified).
C8_GitFailureGivesNull ==
  (Returned /\ IsEligible(target) /\ ~IsMarkdown(target) /\ ~HasSidecar(target)
     /\ GitQueryFails(TargetNode))
  => result.kind = "entry" /\ result.entry.modified = NullT

\* C9: a markdown file without sidecar that cannot be read (open fails, or
\* the content is not valid UTF-8) still gets its entry, with the defaults:
\* title = filename stem, no tags, modified = version-control timestamp
\* (stated for runs where the version-control query itself returns).
C9_UnreadableMarkdownDefaults ==
  (Returned /\ IsEligible(target) /\ IsMarkdown(target) /\ ~HasSidecar(target)
     /\ TargetNode.read # "ok" /\ git_env # "missing")
  => /\ result.kind = "entry"
     /\ result.entry.title = StrV(FileStem(target))
     /\ result.entry.tags = <<>>
     /\ result.entry.modified = get_git_modified_time(GitRun(git_env, TargetNode)).val

ClaimIsItem(raw) == startswith(strip(raw), <<"-", " ">>)

ClaimIsKey(raw) ==
  /\ strip(raw) # <<>> /\ strip(raw)[1] # "#"
  /\ Contains(strip(raw), ":") /\ ~ClaimIsItem(raw)

ClaimKeyOf(raw) == strip(SubSeq(strip(raw), 1, IndexOf(strip(raw), ":") - 1))

ClaimItemOf(raw) == strip_quotes(strip(SubSeq(strip(raw), 3, Len(strip(raw)))))

\* the key line that most recently precedes line i (0 when there is none)
ClaimPrecedingKey(ls, i) ==
  IF \E j \in 1..(i - 1) : ClaimIsKey(ls[j])
  THEN Max({ j \in 1..(i - 1) : ClaimIsKey(ls[j]) }) ELSE 0

\* C10: once the loop has taken a "- item" line, the item is appended to the
\* list of the key line that most recently precedes it in the text, and the
\* line is dropped only when that key's value is not a list; also when a key
\* occurs twice and when the item contains ':'.
C10_ItemAppendsToPrecedingKey ==
  (pc = "fm_loop" /\ line_no > 1 /\ ClaimIsItem(yaml_lines[line_no - 1])
     /\ ClaimPrecedingKey(yaml_lines, line_no - 1) # 0)
  => LET before == FmFold(<<>>, SubSeq(yaml_lines, 1, line_no - 2))
         k == ClaimKeyOf(yaml_lines[ClaimPrecedingKey(yaml_lines, line_no - 1)])
     IN IF DictHas(before, k) /\ DictGet(before, k).kind = "list"
        THEN /\ DictHas(frontmatter, k)
             /\ DictGet(frontmatter, k) =
                  ListV(Append(DictGet(before, k).items,
                               ClaimItemOf(yaml_lines[line_no - 1])))
        ELSE frontmatter = before

====
